---- MODULE Spec2Model ----
(***************************************************************************)
(* Model of the demand-miner core:                                         *)
(*   - core/suggest_fetcher.py  smart_recursive_search (suggestion mining) *)
(*   - core/ranker.py           analyze_keyword / determine_rank           *)
(*   - core/search_analyzer.py  provider boundary used by the ranker       *)
(*   - core/cache_manager.py    lookup, TTL, load, checkpoint, save        *)
(*   - gui/gradio_app.py        run_analysis, the ranking phase of a run   *)
(* Strings are sequences of one-character strings, so that Python's        *)
(* substring test (`fk in s`) and str.strip() are computed, not assumed.   *)
(***************************************************************************)
EXTENDS Integers, Sequences, FiniteSets, TLC

\* ------------------------------------------------------------------ bounds
MaxRoots == 2     \* longest root_keywords list
MaxSugg == 2      \* longest suggestion list in one provider payload
MaxDepth == 3     \* largest max_depth
MaxItems == 2     \* longest item list of a windowed result
MaxGroups == 2    \* longest word_groups list
MaxWords == 2     \* longest word group, longest trend list

\* ------------------------------------------------------------ string model
SP == " "

\* The keywords the provider and the word groups can name.
Keywords == { <<"a">>, <<"b">>, <<"a", "b">> }

\* Word-group contents used as filter_keywords.
FilterChoices == { <<>>, << <<"a">> >>, << <<"b">>, <<"a", "b">> >> }

\* Python `fk in s` for strings
IsSubstring(fk, s) ==
    \E i \in 0..(Len(s) - Len(fk)) : SubSeq(s, i + 1, i + Len(fk)) = fk

RECURSIVE LStrip(_)
LStrip(s) == IF s # <<>> /\ Head(s) = SP THEN LStrip(Tail(s)) ELSE s

RECURSIVE RStrip(_)
RStrip(s) ==
    IF s # <<>> /\ s[Len(s)] = SP THEN RStrip(SubSeq(s, 1, Len(s) - 1)) ELSE s

\* Python str.strip() over the model's whitespace
Strip(s) == RStrip(LStrip(s))

SeqsUpTo(S, n) == UNION { [1..k -> S] : k \in 0..n }

Range(s) == { s[i] : i \in 1..Len(s) }

\* Python's None
None == [None |-> TRUE]

\* JSON values, tagged by their JSON type
JString(x) == <<"string", x>>
JNumber(n) == <<"number", n>>
JObject(f) == <<"object", f>>
JArray(s) == <<"array", s>>
JNull == <<"null", 0>>

\* ------------------------------------------------ suggest_fetcher.py (pure)
\* What the HTTP layer hands to fetch_suggestions: a decoded JSON payload
\* [query, [suggestion, ...]] (or a shorter list), or one of the exceptions the
\* function catches.
Responses(keyword) ==
    { [kind |-> "ok", data |-> <<keyword, l>>] : l \in SeqsUpTo(Keywords, MaxSugg) }
    \cup { [kind |-> "ok", data |-> <<keyword>>] }
    \cup { [kind |-> k, data |-> <<>>] : k \in {"timeout", "error", "parse"} }

fetch_suggestions(keyword, resp) ==
    IF resp.kind = "ok"
    THEN LET data == resp.data
             suggestions == IF Len(data) > 1 THEN data[2] ELSE <<>>
         IN  SelectSeq(suggestions, LAMBDA s : Strip(s) # Strip(keyword))
    ELSE <<>>

\* Payloads of a 200 response that are JSON but not [query, [string, ...]]:
\* a number, null, an object, a null suggestion list, a suggestion that is
\* not a string.
MalformedPayloads(keyword) ==
    { JNumber(5), JNull, JObject(<<>>),
      JArray(<<JString(keyword), JNull>>),
      JArray(<<JString(keyword), JArray(<<JNumber(1)>>)>>) }

\* fetch_suggestions raises on the payload: len() of a number or of None and
\* iteration over None raise TypeError, .strip() of a number AttributeError;
\* lines 56-58 catch Timeout, RequestException, ValueError, IndexError and
\* KeyError only
fetch_suggestions_raises(data) ==
    \/ data[1] \in { "number", "null" }
    \/ /\ data[1] = "array"
       /\ Len(data[2]) > 1
       /\ \/ data[2][2][1] \in { "number", "null" }
          \/ /\ data[2][2][1] = "array"
             /\ \E i \in 1..Len(data[2][2][2]) : data[2][2][2][i][1] # "string"

filter_by_keywords_unfiltered(suggestions, filter_kws) == suggestions

\* lines 65-84: the suggestions that contain some filter keyword, in order
filter_by_keywords(suggestions, filter_kws) ==
    SelectSeq(suggestions,
              LAMBDA s : \E j \in 1..Len(filter_kws) : IsSubstring(filter_kws[j], s))

UniqueNoDedup(s) == s

\* order-preserving dedup at the end of smart_recursive_search
RECURSIVE Unique(_)
Unique(s) ==
    IF s = <<>> THEN <<>>
    ELSE LET r == Unique(SubSeq(s, 1, Len(s) - 1))
             x == s[Len(s)]
         IN  IF x \in Range(r) THEN r ELSE Append(r, x)

\* `if x not in _seen` applied along a list
NotSeen(list, seenSet) == SelectSeq(list, LAMBDA x : x \notin seenSet)

DepthExhaustedOffByOne(depth, maxd) == depth > maxd

\* `if current_depth >= max_depth: return []`
DepthExhausted(depth, maxd) == depth >= maxd

ClaimNoAdd(seenSet, root) == seenSet

\* `_seen.add(root)`
Claim(seenSet, root) == seenSet \cup {root}

ResultsAddedUnfiltered(depth, suggestions, matched, seenSet) ==
    NotSeen(suggestions, seenSet) \o NotSeen(matched, seenSet)

\* what one loop iteration appends to all_results, in order
ResultsAdded(depth, suggestions, matched, seenSet) ==
    IF depth = 0
    THEN NotSeen(matched, seenSet)
    ELSE NotSeen(suggestions, seenSet) \o NotSeen(matched, seenSet)

\* what one loop iteration appends to next_roots
FrontierAdded(matched, seenSet) == NotSeen(matched, seenSet)

\* itertools.product(*groups): tuples in lexicographic order of the choices,
\* the first group varying slowest
RECURSIVE Product(_)
Product(groups) ==
    IF groups = <<>> THEN << <<>> >>
    ELSE LET g == Head(groups)
             rest == Product(Tail(groups))
             n == Len(rest)
         IN  [k \in 1..(Len(g) * n) |-> << g[((k - 1) \div n) + 1] >> \o rest[((k - 1) % n) + 1]]

RECURSIVE JoinNoSeparator(_)
JoinNoSeparator(combo) ==
    IF combo = <<>> THEN <<>> ELSE Head(combo) \o JoinNoSeparator(Tail(combo))

\* " ".join(combo)
RECURSIVE Join(_)
Join(combo) ==
    IF combo = <<>> THEN <<>>
    ELSE IF Len(combo) = 1 THEN combo[1]
    ELSE combo[1] \o <<SP>> \o Join(Tail(combo))

\* trend_words is a list here; None behaves as [] (both are falsy at line 198)
brute_force_combinations(word_groups, use_trend, trend_words) ==
    LET all_groups == IF use_trend /\ trend_words # <<>>
                      THEN <<trend_words>> \o word_groups
                      ELSE word_groups
    IN  IF all_groups = <<>> THEN <<>>
        ELSE [i \in 1..Len(Product(all_groups)) |-> Join(Product(all_groups)[i])]

\* ------------------------------------------------ search_analyzer.py (pure)
\* A Python dict is a function on its keys; {} is the function with no keys.
EmptyDict == [k \in {} |-> 0]

\* `not d` for a dict
IsEmpty(d) == DOMAIN d = {}

\* dict.get(key, default)
Get(d, key, default) == IF key \in DOMAIN d THEN d[key] ELSE default

\* d[key] = value on a dict
Put(d, key, value) == [k \in DOMAIN d \cup {key} |-> IF k = key THEN value ELSE d[k]]

\* domains named by provider items and by the allowlist
DomX == <<"x">>
DomSubX == <<"s", "x">>
DomY == <<"y">>
Domains == { DomX, DomSubX, DomY }

\* the provider's items: displayLink may be absent
RawItems == { [displayLink |-> d] : d \in Domains } \cup { [title |-> "t"] }

\* what _search returns: {} on any failure (missing key, HTTP error, timeout,
\* transport error), else the decoded JSON, with or without searchInformation
\* and items
SearchData(totals, itemLists) ==
    { EmptyDict }
    \cup { [kind |-> "customsearch"] }
    \cup { [searchInformation |-> [totalResults |-> n]] : n \in totals }
    \cup { [searchInformation |-> [totalResults |-> n], items |-> its] :
              n \in totals, its \in itemLists }

\* int(data.get("searchInformation", {}).get("totalResults", 0)) for a payload
\* whose totalResults is a well-formed number
TotalResults(data) == Get(Get(data, "searchInformation", EmptyDict), "totalResults", 0)

get_allintitle_count(data) ==
    IF IsEmpty(data) THEN -1 ELSE TotalResults(data)

\* decoded JSON in which a value the code dereferences is null
MalformedSearchData ==
    { [searchInformation |-> None],
      [searchInformation |-> [totalResults |-> 3], items |-> None] }

\* get_allintitle_count raises: None.get is an AttributeError (line 102)
get_allintitle_count_raises(data) == data["searchInformation"] = None

\* get_recent_results raises: None.get as above, or iteration over None
\* (line 136), a TypeError
get_recent_results_raises(data) ==
    \/ data["searchInformation"] = None
    \/ ("items" \in DOMAIN data /\ data["items"] = None)

ConvertItem(item) == [domain |-> Get(item, "displayLink", <<>>)]

ConvertItems(items) == [i \in 1..Len(items) |-> ConvertItem(items[i])]

get_recent_results(data) ==
    IF IsEmpty(data)
    THEN [count |-> 0, items |-> <<>>]
    ELSE [count |-> TotalResults(data),
          items |-> ConvertItems(Get(data, "items", <<>>))]

check_domain_match_vacuous(results, tds) ==
    \A i \in 1..Len(Get(results, "items", <<>>)) :
        \E j \in 1..Len(tds) : IsSubstring(tds[j], Get(results.items[i], "domain", <<>>))

check_domain_match(results, tds) ==
    LET items == Get(results, "items", <<>>)
    IN  IF items = <<>>
        THEN FALSE
        ELSE \A i \in 1..Len(items) :
                \E j \in 1..Len(tds) : IsSubstring(tds[j], Get(items[i], "domain", <<>>))

\* ----------------------------------------------------------- ranker.py (pure)
\* f"{days}d"
Label(days) == <<days, "d">>

\* the literal fallback keys of determine_rank and the sniper window
FallbackSDays == 90
FallbackADays == 30
FallbackBDays == 7
SniperDays == 1

\* results.get("count", 0) == 0
CountIsZero(window) == Get(window, "count", 0) = 0

\* recent_results.get(f"{days}d", recent_results.get(fallback, {}))
Window(rr, days, fallbackDays) ==
    Get(rr, Label(days), Get(rr, Label(fallbackDays), EmptyDict))

determine_rank_title_zero_late(title, rr, tds, ranking, sniper) ==
    IF /\ sniper.enabled
       /\ 1 <= title /\ title <= sniper.max_competitors
       /\ Get(Get(rr, Label(SniperDays), EmptyDict), "count", 0) > 0
       /\ check_domain_match(Get(rr, Label(SniperDays), EmptyDict), tds)
    THEN "SS"
    ELSE IF CountIsZero(Window(rr, ranking.rank_s_days, FallbackSDays)) THEN "S"
    ELSE IF CountIsZero(Window(rr, ranking.rank_a_days, FallbackADays)) THEN "A"
    ELSE IF CountIsZero(Window(rr, ranking.rank_b_days, FallbackBDays)) THEN "B"
    ELSE IF title = 0 THEN "S"
    ELSE "C"

determine_rank(title, rr, tds, ranking, sniper) ==
    IF /\ sniper.enabled
       /\ 1 <= title /\ title <= sniper.max_competitors
       /\ Get(Get(rr, Label(SniperDays), EmptyDict), "count", 0) > 0
       /\ check_domain_match(Get(rr, Label(SniperDays), EmptyDict), tds)
    THEN "SS"
    ELSE IF title = 0 THEN "S"
    ELSE IF CountIsZero(Window(rr, ranking.rank_s_days, FallbackSDays)) THEN "S"
    ELSE IF CountIsZero(Window(rr, ranking.rank_a_days, FallbackADays)) THEN "A"
    ELSE IF CountIsZero(Window(rr, ranking.rank_b_days, FallbackBDays)) THEN "B"
    ELSE "C"

TitleExceedsIgnoringSwitch(maxTitle, title) == title > maxTitle

\* `max_allintitle > 0 and allintitle > max_allintitle`
TitleExceeds(maxTitle, title) == maxTitle > 0 /\ title > maxTitle

SkipLongerNever(window) == FALSE

\* `if results_7d.get("count", 0) == 0` / `if results_30d.get("count", 0) == 0`
SkipLonger(window) == CountIsZero(window)

\* the window synthesised without a query
ZeroWindow == [count |-> 0, items |-> <<>>]

\* ------------------------------------------------- cache_manager.py (pure)
\* `not x` for a dict that may be None
Falsy(d) == d = None \/ IsEmpty(d)

\* Values a "timestamp" field can hold once the cache file has been read back:
\* a string (an ISO date-time of hour `val`, the empty string, or any other
\* text) or a number.  The field may also be absent.
IsoString(t) == [type |-> "str", form |-> "iso", val |-> t]
EmptyString == [type |-> "str", form |-> "empty", val |-> 0]
MalformedString == [type |-> "str", form |-> "malformed", val |-> 0]
Number(n) == [type |-> "int", form |-> "", val |-> n]

\* datetime.now().isoformat() at hour t
isoformat(t) == IsoString(t)

\* `not timestamp_str`
NotTruthy(v) == v = None \/ (v.type = "str" /\ v.form = "empty") \/ (v.type = "int" /\ v.val = 0)

\* datetime.fromisoformat(v): TypeError for a non-string, ValueError for a
\* string that is no ISO date-time, else the hour it denotes
FromIsoTypeError(v) == v.type # "str"
FromIsoValueError(v) == v.type = "str" /\ v.form # "iso"
fromisoformat(v) == v.val

\* str.upper() on the rank strings the model stores
Upper(s) == CASE s = "ss" -> "SS" [] s = "s" -> "S" [] s = "a" -> "A"
              [] s = "b" -> "B" [] s = "c" -> "C" [] OTHER -> s

\* defaults of the per-rank TTL table and of the base TTL
RankSsTtlHours == 0
RankSTtlHours == 0
RankATtlHours == 24
RankBTtlHours == 48
RankCTtlHours == 168
DefaultTtlHours == 24

rank_ttl_map(smart) ==
    [r \in {"SS", "S", "A", "B", "C"} |->
        CASE r = "SS" -> Get(smart, "rank_ss_ttl_hours", RankSsTtlHours)
          [] r = "S" -> Get(smart, "rank_s_ttl_hours", RankSTtlHours)
          [] r = "A" -> Get(smart, "rank_a_ttl_hours", RankATtlHours)
          [] r = "B" -> Get(smart, "rank_b_ttl_hours", RankBTtlHours)
          [] r = "C" -> Get(smart, "rank_c_ttl_hours", RankCTtlHours)]

effective_ttl_base_only(cache_entry, ttl_hours, smart) == ttl_hours

\* lines 96-107
effective_ttl(cache_entry, ttl_hours, smart) ==
    IF ~Falsy(smart) /\ Get(smart, "enabled", FALSE)
    THEN LET rnk == Upper(Get(cache_entry, "rank", ""))
         IN  IF rnk \in DOMAIN rank_ttl_map(smart) THEN rank_ttl_map(smart)[rnk]
                                                  ELSE ttl_hours
    ELSE ttl_hours

\* is_cache_valid raises: fromisoformat's TypeError is not caught (lines 90-93)
is_cache_valid_raises(cache_entry) ==
    LET timestamp_str == Get(cache_entry, "timestamp", None)
    IN  ~NotTruthy(timestamp_str) /\ FromIsoTypeError(timestamp_str)

\* is_cache_valid when it returns, at clock reading `clock`
is_cache_valid(cache_entry, ttl_hours, smart, clock) ==
    LET timestamp_str == Get(cache_entry, "timestamp", None)
    IN  IF NotTruthy(timestamp_str) THEN FALSE
        ELSE IF FromIsoValueError(timestamp_str) THEN FALSE
        ELSE IF effective_ttl(cache_entry, ttl_hours, smart) = 0 THEN FALSE
        ELSE clock < fromisoformat(timestamp_str)
                       + effective_ttl(cache_entry, ttl_hours, smart)

\* get_cached_result reaches is_cache_valid
ValidityChecked(keyword, store, cfg) ==
    keyword \in DOMAIN store /\ Get(cfg, "enabled", TRUE)

get_cached_result_raises(keyword, store, cfg) ==
    ValidityChecked(keyword, store, cfg) /\ is_cache_valid_raises(store[keyword])

get_cached_result_ignoring_switch(keyword, store, cfg, clock) ==
    IF keyword \notin DOMAIN store THEN None
    ELSE IF is_cache_valid(store[keyword], Get(cfg, "ttl_hours", DefaultTtlHours),
                           Get(cfg, "smart_ttl", None), clock)
         THEN store[keyword]
         ELSE None

\* get_cached_result when it returns
get_cached_result(keyword, store, cfg, clock) ==
    IF keyword \notin DOMAIN store THEN None
    ELSE IF ~Get(cfg, "enabled", TRUE) THEN None
    ELSE IF is_cache_valid(store[keyword], Get(cfg, "ttl_hours", DefaultTtlHours),
                           Get(cfg, "smart_ttl", None), clock)
         THEN store[keyword]
         ELSE None

\* ------------------------------------- cache_manager.py: the persisted file
\* json.dump / json.load of the values an entry holds, field by field
EncodeTimestamp(v) ==
    IF v.type = "str" THEN JString(<<v.form, v.val>>) ELSE JNumber(v.val)

DecodeTimestamp(j) ==
    IF j[1] = "string" THEN [type |-> "str", form |-> j[2][1], val |-> j[2][2]]
                       ELSE Number(j[2])

EncodeItem(it) == JObject([domain |-> JString(it.domain)])
DecodeItem(j) == [domain |-> j[2].domain[2]]

EncodeWindow(w) ==
    JObject([count |-> JNumber(w.count),
             items |-> JArray([i \in 1..Len(w.items) |-> EncodeItem(w.items[i])])])

DecodeWindowNoItems(j) == [count |-> j[2].count[2], items |-> <<>>]

DecodeWindow(j) ==
    [count |-> j[2].count[2],
     items |-> [i \in 1..Len(j[2].items[2]) |-> DecodeItem(j[2].items[2][i])]]

EncodeField(f, v) ==
    CASE f = "keyword" -> JString(v)
      [] f = "allintitle_count" -> JNumber(v)
      [] f = "rank" -> JString(v)
      [] f = "timestamp" -> EncodeTimestamp(v)
      [] f = "recent_results" -> JObject([l \in DOMAIN v |-> EncodeWindow(v[l])])

DecodeField(f, j) ==
    CASE f = "keyword" -> j[2]
      [] f = "allintitle_count" -> j[2]
      [] f = "rank" -> j[2]
      [] f = "timestamp" -> DecodeTimestamp(j)
      [] f = "recent_results" -> [l \in DOMAIN j[2] |-> DecodeWindow(j[2][l])]

EncodeEntry(e) == JObject([f \in DOMAIN e |-> EncodeField(f, e[f])])
DecodeEntry(j) == [f \in DOMAIN j[2] |-> DecodeField(f, j[2][f])]

\* what json.load returns for a top-level JSON array: a Python list, which is
\* no keyword map (written as a value no dict of the model equals)
DecodedList == [k \in { <<"[", "]">> } |-> <<>>]

\* the cache file of the profile: absent, not openable, not UTF-8, not JSON
\* (empty or truncated included), a JSON array, or a JSON object written as
\* its <<key, value>> members in file order
FileMissing == [kind |-> "missing", pairs |-> <<>>]
FileUnreadable == [kind |-> "unreadable", pairs |-> <<>>]
FileUndecodable == [kind |-> "undecodable", pairs |-> <<>>]
FileInvalid == [kind |-> "invalid", pairs |-> <<>>]
FileArray == [kind |-> "array", pairs |-> <<>>]
FileObject(pairs) == [kind |-> "object", pairs |-> pairs]

\* json.dump(cache_data, f): the members in the order `order` lists the keys
json_dump(store, order) ==
    IF store = DecodedList THEN FileArray
    ELSE FileObject([i \in 1..Len(order) |-> <<order[i], EncodeEntry(store[order[i]])>>])

\* the orders in which the keys of a dict can stand in the file
KeyOrders(store) ==
    IF store = DecodedList THEN { <<>> }
    ELSE { o \in [1..Cardinality(DOMAIN store) -> DOMAIN store] :
             \A i, j \in DOMAIN o : i # j => o[i] # o[j] }

\* json.load of a JSON object: a repeated key keeps its last value
json_load(pairs) ==
    [k \in { pairs[i][1] : i \in 1..Len(pairs) } |->
        DecodeEntry(pairs[CHOOSE i \in 1..Len(pairs) :
                            pairs[i][1] = k /\ \A j \in (i + 1)..Len(pairs) : pairs[j][1] # k][2])]

\* load_cache raises: UnicodeDecodeError is neither JSONDecodeError nor OSError
load_cache_raises(file) == file.kind = "undecodable"

\* load_cache when it returns
load_cache(file) ==
    CASE file.kind = "missing" -> EmptyDict
      [] file.kind = "unreadable" -> EmptyDict
      [] file.kind = "invalid" -> EmptyDict
      [] file.kind = "array" -> DecodedList
      [] file.kind = "object" -> json_load(file.pairs)

\* how the I/O of one save_cache call ends: all of it works, os.makedirs
\* fails, open() fails, or the write fails after open() truncated the file
IoOutcomes == { "ok", "makedirs", "open", "write" }

\* save_cache raises: os.makedirs is called before the try block
save_cache_raises(outcome) == outcome = "makedirs"

\* the file after save_cache
save_cache(file, store, order, outcome) ==
    CASE outcome = "ok" -> json_dump(store, order)
      [] outcome = "write" -> FileInvalid
      [] OTHER -> file

\* update_cache: stamp and upsert
update_cache(keyword, result_data, store, clock) ==
    Put(store, keyword, Put(result_data, "timestamp", isoformat(clock)))

CheckpointDueAtZero(processed_count, interval) ==
    interval > 0 /\ processed_count >= 0 /\ processed_count % interval = 0

\* `interval > 0 and processed_count > 0 and processed_count % interval == 0`
CheckpointDue(processed_count, interval) ==
    interval > 0 /\ processed_count > 0 /\ processed_count % interval = 0

\* ------------------------------------------------------------------- state
VARIABLES
    root_keywords,   \* the caller's root_keywords
    filter_keywords, \* the caller's filter_keywords
    max_depth,       \* the caller's max_depth
    stack,           \* activation records of smart_recursive_search, outermost first
    seen,            \* _seen, shared by all activations
    pc,              \* "enter" | "loop" | "resume" | "done" | "raised"
    retval,          \* value returned by the activation that last returned
    fetchLog,        \* history: <<keyword, depth, call succeeded>> per provider call, in order
    sugLog,          \* history: <<depth, suggestion>> pairs returned by fetch_suggestions
    admitLog,        \* history: keywords in the order they were appended to any all_results
    \* --- ranker.py: analyze_keyword / determine_rank
    sniper_config,   \* profile_settings["sniper"]: [enabled, max_competitors]
    ranking_config,  \* profile_settings["ranking"]: [rank_s_days, rank_a_days, rank_b_days]
    max_allintitle,  \* profile_settings["filtering"]["max_allintitle_results"]
    target_domains,  \* the allowlist (word group "sites")
    rpc,             \* position in analyze_keyword
    allintitle,      \* the title count
    recent_results,  \* window label -> {count, items}
    rank,            \* the rank returned
    queryLog,        \* history: <<role, days, result, call failed>> per query that returned, in order
    \* --- cache_manager.py
    cache_data,      \* the in-memory store: keyword -> entry
    cache_config,    \* config["cache"]
    now,             \* datetime.now(), in hours
    lkey,            \* the keyword argument of get_cached_result
    cpc,             \* position of the cache caller
    cret,            \* value returned by the last cache call
    validRet,        \* history: <<b>> if is_cache_valid was called and returned b, else <<>>
    disk,            \* the cache file of the profile
    io,              \* how the I/O of the last save_cache call ended ("" if none was made)
    processed_count, \* argument of the last checkpoint_save call
    interval,        \* argument of the last checkpoint_save call
    cp_result,       \* value returned by the last checkpoint_save call
    savedStore,      \* history: <<store>> if the file is what a save of `store` wrote, else <<>>
    \* --- suggest_fetcher.py: brute_force_combinations
    word_groups,     \* argument word_groups
    use_trend,       \* argument use_trend
    trend_words,     \* argument trend_words
    combinations,    \* the list returned
    bpc,             \* "call" | "done"
    \* --- gradio_app.py: run_analysis, the ranking phase
    unique_suggestions,  \* the deduplicated candidate list
    has_api_key,         \* api_config["google_custom_search"]["api_key"] is set
    checkpoint_interval, \* config["batch"]["checkpoint_interval"]
    run_i,               \* candidates whose loop iteration is over (the loop index i)
    result,              \* the entry produced for the current candidate
    results,             \* the list handed to the export
    cache_hits,          \* counter cache_hits
    api_calls,           \* counter api_calls
    upc,                 \* position in run_analysis
    runLog               \* history: <<event, processed count, outcome>>, in order

mineVars == <<root_keywords, filter_keywords, max_depth, stack, seen, pc, retval,
              fetchLog, sugLog, admitLog>>

rankVars == <<sniper_config, ranking_config, max_allintitle, target_domains, rpc,
              allintitle, recent_results, rank, queryLog>>

storeVars == <<disk, io, processed_count, interval, cp_result, savedStore>>

cacheVars == <<cache_data, cache_config, now, lkey, cpc, cret, validRet, storeVars>>

comboVars == <<word_groups, use_trend, trend_words, combinations, bpc>>

runVars == <<unique_suggestions, has_api_key, checkpoint_interval, run_i, result, results,
             cache_hits, api_calls, upc, runLog>>

vars == <<mineVars, rankVars, cacheVars, comboVars, runVars>>

\* run_analysis is not running
RunIdle ==
    /\ unique_suggestions = <<>>
    /\ has_api_key = FALSE
    /\ checkpoint_interval = 0
    /\ run_i = 0
    /\ result = None
    /\ results = <<>>
    /\ cache_hits = 0
    /\ api_calls = 0
    /\ upc = "idle"
    /\ runLog = <<>>

\* brute_force_combinations is not running
ComboIdle ==
    /\ word_groups = <<>>
    /\ use_trend = FALSE
    /\ trend_words = <<>>
    /\ combinations = <<>>
    /\ bpc = "idle"

\* no cache file is in use
StoreIdle ==
    /\ disk = FileMissing
    /\ io = ""
    /\ processed_count = 0
    /\ interval = 0
    /\ cp_result = FALSE
    /\ savedStore = <<>>

\* the cache is not in use
CacheIdle ==
    /\ cache_data = EmptyDict
    /\ cache_config = EmptyDict
    /\ now = 0
    /\ lkey = <<>>
    /\ cpc = "idle"
    /\ cret = None
    /\ validRet = <<>>
    /\ StoreIdle

\* the ranker is not running
RankIdle ==
    /\ sniper_config = [enabled |-> FALSE, max_competitors |-> 0]
    /\ ranking_config = [rank_s_days |-> 0, rank_a_days |-> 0, rank_b_days |-> 0]
    /\ max_allintitle = 0
    /\ target_domains = <<>>
    /\ rpc = "idle"
    /\ allintitle = 0
    /\ recent_results = <<>>
    /\ rank = ""
    /\ queryLog = <<>>

\* the miner is not running
MineIdle ==
    /\ root_keywords = <<>>
    /\ filter_keywords = <<>>
    /\ max_depth = 0
    /\ stack = <<>>
    /\ seen = {}
    /\ pc = "idle"
    /\ retval = <<>>
    /\ fetchLog = <<>>
    /\ sugLog = {}
    /\ admitLog = <<>>

Frame(roots) == [roots |-> roots, i |-> 1, all_results |-> <<>>, next_roots |-> <<>>]

current_depth == Len(stack) - 1
Top == stack[Len(stack)]
SetTop(f) == [stack EXCEPT ![Len(stack)] = f]
Pop == SubSeq(stack, 1, Len(stack) - 1)

Init ==
    /\ root_keywords \in SeqsUpTo(Keywords, MaxRoots)
    /\ filter_keywords \in FilterChoices
    /\ max_depth \in (-1)..MaxDepth
    /\ stack = << Frame(root_keywords) >>
    /\ seen = {}
    /\ pc = "enter"
    /\ retval = <<>>
    /\ fetchLog = <<>>
    /\ sugLog = {}
    /\ admitLog = <<>>
    /\ RankIdle
    /\ CacheIdle
    /\ ComboIdle
    /\ RunIdle

\* return `value` from the current activation to its caller
Return(value) ==
    /\ retval' = value
    /\ stack' = Pop
    /\ pc' = IF Len(stack) = 1 THEN "done" ELSE "resume"

\* lines 114-115
DepthLimit ==
    /\ pc = "enter"
    /\ DepthExhausted(current_depth, max_depth)
    /\ Return(<<>>)
    /\ UNCHANGED <<comboVars, runVars, cacheVars, rankVars, root_keywords, filter_keywords, max_depth, seen, fetchLog, sugLog, admitLog>>

\* lines 117-120
Begin ==
    /\ pc = "enter"
    /\ ~DepthExhausted(current_depth, max_depth)
    /\ pc' = "loop"
    /\ UNCHANGED <<comboVars, runVars, cacheVars, rankVars, root_keywords, filter_keywords, max_depth, stack, seen, retval,
                   fetchLog, sugLog, admitLog>>

\* lines 123-124
SkipSeen ==
    /\ pc = "loop"
    /\ Top.i <= Len(Top.roots)
    /\ Top.roots[Top.i] \in seen
    /\ stack' = SetTop([Top EXCEPT !.i = @ + 1])
    /\ UNCHANGED <<comboVars, runVars, cacheVars, rankVars, root_keywords, filter_keywords, max_depth, seen, pc, retval,
                   fetchLog, sugLog, admitLog>>

\* lines 125-153: claim the root, fetch, and merge the suggestions
FetchRoot ==
    /\ pc = "loop"
    /\ Top.i <= Len(Top.roots)
    /\ Top.roots[Top.i] \notin seen
    /\ LET root == Top.roots[Top.i]
           seen1 == Claim(seen, root)
       IN  \E resp \in Responses(root) :
             LET suggestions == fetch_suggestions(root, resp)
                 matched == filter_by_keywords(suggestions, filter_keywords)
                 added == ResultsAdded(current_depth, suggestions, matched, seen1)
             IN  /\ seen' = seen1
                 /\ stack' = SetTop([Top EXCEPT
                                       !.i = @ + 1,
                                       !.all_results = @ \o added,
                                       !.next_roots = @ \o FrontierAdded(matched, seen1)])
                 /\ fetchLog' = Append(fetchLog, <<root, current_depth, resp.kind = "ok">>)
                 /\ sugLog' = sugLog \cup { <<current_depth, s>> : s \in Range(suggestions) }
                 /\ admitLog' = admitLog \o added
    /\ UNCHANGED <<comboVars, runVars, cacheVars, rankVars, root_keywords, filter_keywords, max_depth, pc, retval>>

\* lines 125-129 and 52-54: the root is claimed and fetch_suggestions raises
FetchRootRaises ==
    /\ pc = "loop"
    /\ Top.i <= Len(Top.roots)
    /\ Top.roots[Top.i] \notin seen
    /\ \E data \in MalformedPayloads(Top.roots[Top.i]) : fetch_suggestions_raises(data)
    /\ seen' = Claim(seen, Top.roots[Top.i])
    /\ fetchLog' = Append(fetchLog, <<Top.roots[Top.i], current_depth, FALSE>>)
    /\ pc' = "raised"
    /\ UNCHANGED <<comboVars, runVars, cacheVars, rankVars, root_keywords, filter_keywords, max_depth,
                   stack, retval, sugLog, admitLog>>

\* lines 156-169: the frontier is not empty, go one level deeper
Recurse ==
    /\ pc = "loop"
    /\ Top.i > Len(Top.roots)
    /\ Top.next_roots # <<>>
    /\ stack' = Append(stack, Frame(Top.next_roots))
    /\ pc' = "enter"
    /\ UNCHANGED <<comboVars, runVars, cacheVars, rankVars, root_keywords, filter_keywords, max_depth, seen, retval,
                   fetchLog, sugLog, admitLog>>

\* lines 156, 172-179: the frontier is empty, dedup and return
ReturnLeaf ==
    /\ pc = "loop"
    /\ Top.i > Len(Top.roots)
    /\ Top.next_roots = <<>>
    /\ Return(Unique(Top.all_results))
    /\ UNCHANGED <<comboVars, runVars, cacheVars, rankVars, root_keywords, filter_keywords, max_depth, seen, fetchLog, sugLog, admitLog>>

\* lines 170-179: the deeper call returned; extend, dedup and return
Resume ==
    /\ pc = "resume"
    /\ Return(Unique(Top.all_results \o retval))
    /\ UNCHANGED <<comboVars, runVars, cacheVars, rankVars, root_keywords, filter_keywords, max_depth, seen, fetchLog, sugLog, admitLog>>

Next ==
    DepthLimit \/ Begin \/ SkipSeen \/ FetchRoot \/ FetchRootRaises \/ Recurse
        \/ ReturnLeaf \/ Resume

Spec == Init /\ [][Next]_vars

\* ------------------------------------------------- ranker.analyze_keyword
\* provider payloads seen by one analyze_keyword call
TitleCounts == { 0, 3, 10 }
TitlePayloads == SearchData(TitleCounts, {})
PipelineItemLists == { <<[displayLink |-> DomX]>>, <<[displayLink |-> DomY]>> }
WindowPayloads == SearchData({0, 2}, PipelineItemLists)

SniperChoices ==
    { [enabled |-> e, max_competitors |-> 5] : e \in BOOLEAN }

\* validate_profile admits every positive integer, in any order
RankingChoices ==
    { [rank_s_days |-> 90, rank_a_days |-> 30, rank_b_days |-> 7],
      [rank_s_days |-> 90, rank_a_days |-> 30, rank_b_days |-> 1],
      [rank_s_days |-> 90, rank_a_days |-> 7, rank_b_days |-> 7],
      [rank_s_days |-> 7, rank_a_days |-> 30, rank_b_days |-> 7] }

MaxTitleChoices == { 0, 5, 10 }

AllowLists == { <<>>, <<DomX>> }

RankInit ==
    /\ MineIdle
    /\ CacheIdle
    /\ ComboIdle
    /\ RunIdle
    /\ sniper_config \in SniperChoices
    /\ ranking_config \in RankingChoices
    /\ max_allintitle \in MaxTitleChoices
    /\ target_domains \in AllowLists
    /\ rpc = "title"
    /\ allintitle = 0
    /\ recent_results = EmptyDict
    /\ rank = ""
    /\ queryLog = <<>>

RankConfig == <<sniper_config, ranking_config, max_allintitle, target_domains>>

\* line 124
QueryTitle ==
    /\ rpc = "title"
    /\ \E data \in TitlePayloads :
          /\ allintitle' = get_allintitle_count(data)
          /\ queryLog' = Append(queryLog, <<"title", 0, get_allintitle_count(data), IsEmpty(data)>>)
    /\ rpc' = "filter"
    /\ UNCHANGED <<comboVars, runVars, cacheVars, mineVars, RankConfig, recent_results, rank>>

\* lines 127-134
ShortCircuit ==
    /\ rpc = "filter"
    /\ TitleExceeds(max_allintitle, allintitle)
    /\ rank' = "C"
    /\ recent_results' = EmptyDict
    /\ rpc' = "done"
    /\ UNCHANGED <<comboVars, runVars, cacheVars, mineVars, RankConfig, allintitle, queryLog>>

\* lines 128, 137-147, sniper enabled
QuerySniper ==
    /\ rpc = "filter"
    /\ ~TitleExceeds(max_allintitle, allintitle)
    /\ sniper_config.enabled
    /\ \E data \in WindowPayloads :
          LET r == get_recent_results(data)
          IN  /\ recent_results' = Put(recent_results, Label(SniperDays), r)
              /\ queryLog' = Append(queryLog, <<"sniper", SniperDays, r, IsEmpty(data)>>)
    /\ rpc' = "b"
    /\ UNCHANGED <<comboVars, runVars, cacheVars, mineVars, RankConfig, allintitle, rank>>

\* lines 128, 137-144, sniper disabled
SkipSniper ==
    /\ rpc = "filter"
    /\ ~TitleExceeds(max_allintitle, allintitle)
    /\ ~sniper_config.enabled
    /\ rpc' = "b"
    /\ UNCHANGED <<comboVars, runVars, cacheVars, mineVars, RankConfig, allintitle, recent_results, rank, queryLog>>

\* lines 150-158: the B-threshold window; a zero count synthesises A and S
QueryB ==
    /\ rpc = "b"
    /\ \E data \in WindowPayloads :
          LET r == get_recent_results(data)
              rr1 == Put(recent_results, Label(ranking_config.rank_b_days), r)
          IN  /\ queryLog' = Append(queryLog, <<"B", ranking_config.rank_b_days, r, IsEmpty(data)>>)
              /\ IF SkipLonger(r)
                 THEN /\ recent_results' =
                            Put(Put(rr1, Label(ranking_config.rank_a_days), ZeroWindow),
                                Label(ranking_config.rank_s_days), ZeroWindow)
                      /\ rpc' = "rank"
                 ELSE /\ recent_results' = rr1
                      /\ rpc' = "a"
    /\ UNCHANGED <<comboVars, runVars, cacheVars, mineVars, RankConfig, allintitle, rank>>

\* lines 160-166: the A-threshold window; a zero count synthesises S
QueryA ==
    /\ rpc = "a"
    /\ \E data \in WindowPayloads :
          LET r == get_recent_results(data)
              rr1 == Put(recent_results, Label(ranking_config.rank_a_days), r)
          IN  /\ queryLog' = Append(queryLog, <<"A", ranking_config.rank_a_days, r, IsEmpty(data)>>)
              /\ IF SkipLonger(r)
                 THEN /\ recent_results' =
                            Put(rr1, Label(ranking_config.rank_s_days), ZeroWindow)
                      /\ rpc' = "rank"
                 ELSE /\ recent_results' = rr1
                      /\ rpc' = "s"
    /\ UNCHANGED <<comboVars, runVars, cacheVars, mineVars, RankConfig, allintitle, rank>>

\* lines 168-170: the S-threshold window
QueryS ==
    /\ rpc = "s"
    /\ \E data \in WindowPayloads :
          LET r == get_recent_results(data)
          IN  /\ recent_results' = Put(recent_results, Label(ranking_config.rank_s_days), r)
              /\ queryLog' = Append(queryLog, <<"S", ranking_config.rank_s_days, r, IsEmpty(data)>>)
    /\ rpc' = "rank"
    /\ UNCHANGED <<comboVars, runVars, cacheVars, mineVars, RankConfig, allintitle, rank>>

\* line 124: get_allintitle_count raises on a malformed payload
QueryTitleRaises ==
    /\ rpc = "title"
    /\ \E data \in MalformedSearchData : get_allintitle_count_raises(data)
    /\ rpc' = "raised"
    /\ UNCHANGED <<comboVars, runVars, cacheVars, mineVars, RankConfig, allintitle, recent_results,
                   rank, queryLog>>

\* lines 146, 150, 160, 168: get_recent_results raises on a malformed payload
QueryWindowRaises ==
    /\ \/ rpc \in { "b", "a", "s" }
       \/ (rpc = "filter" /\ ~TitleExceeds(max_allintitle, allintitle) /\ sniper_config.enabled)
    /\ \E data \in MalformedSearchData : get_recent_results_raises(data)
    /\ rpc' = "raised"
    /\ UNCHANGED <<comboVars, runVars, cacheVars, mineVars, RankConfig, allintitle, recent_results,
                   rank, queryLog>>

\* lines 172-186: determine_rank on what was gathered
Rank ==
    /\ rpc = "rank"
    /\ rank' = determine_rank(allintitle, recent_results, target_domains,
                              ranking_config, sniper_config)
    /\ rpc' = "done"
    /\ UNCHANGED <<comboVars, runVars, cacheVars, mineVars, RankConfig, allintitle, recent_results, queryLog>>

RankNext ==
    QueryTitle \/ QueryTitleRaises \/ ShortCircuit \/ QuerySniper \/ SkipSniper \/ QueryB
        \/ QueryA \/ QueryS \/ QueryWindowRaises \/ Rank

RankSpec == RankInit /\ [][RankNext]_vars

\* ------------------------------------------------- ranker.determine_rank
\* determine_rank as a function of its arguments: every window the ranker
\* records is present, the sniper window may be absent, and the item list of
\* the sniper window is arbitrary.
DetTitleCounts == { -1, 0, 1, 5, 6 }
DetWindowCounts == { -1, 0, 2 }
DetItemLists == SeqsUpTo({ [domain |-> d] : d \in Domains \cup { <<>> } }, MaxItems)
DetAllowLists == { <<>>, <<DomX>>, <<DomY, DomX>> }

DetInit ==
    /\ MineIdle
    /\ CacheIdle
    /\ ComboIdle
    /\ RunIdle
    /\ sniper_config \in SniperChoices
    /\ ranking_config \in RankingChoices
    /\ max_allintitle = 0
    /\ target_domains \in DetAllowLists
    /\ rpc = "rank"
    /\ allintitle \in DetTitleCounts
    /\ \E has1d \in BOOLEAN, its \in DetItemLists :
          LET keys == { Label(ranking_config.rank_b_days), Label(ranking_config.rank_a_days),
                        Label(ranking_config.rank_s_days) }
                      \cup (IF has1d THEN { Label(SniperDays) } ELSE {})
          IN  \E c \in [keys -> DetWindowCounts] :
                recent_results =
                    [k \in keys |->
                        [count |-> c[k],
                         items |-> IF k = Label(SniperDays) THEN its ELSE <<>>]]
    /\ rank = ""
    /\ queryLog = <<>>

DetNext == Rank

DetSpec == DetInit /\ [][DetNext]_vars

\* ------------------------------------------- cache_manager.get_cached_result
\* get_cached_result / is_cache_valid as functions of the store, the cache
\* configuration and the clock.
KeyA == <<"a">>
KeyB == <<"b">>

\* ranks an entry can carry: the five ranks, "?" (no API key), a lower-case
\* spelling, or no rank field
EntryRanks == { "SS", "S", "A", "B", "C", "?", "c", "" }

EntryTimestamps ==
    { None, EmptyString, MalformedString, Number(0), Number(5), IsoString(0), IsoString(24) }

EntryOf(rnk, ts) ==
    LET e0 == [allintitle_count |-> 3]
        e1 == IF rnk = "" THEN e0 ELSE Put(e0, "rank", rnk)
    IN  IF ts = None THEN e1 ELSE Put(e1, "timestamp", ts)

LookupEntries == { EntryOf(rnk, ts) : rnk \in EntryRanks, ts \in EntryTimestamps }

LookupStores ==
    { EmptyDict }
    \cup { Put(EmptyDict, KeyA, e) : e \in LookupEntries }
    \cup { Put(Put(EmptyDict, KeyB, EntryOf("C", IsoString(0))), KeyA, e) : e \in LookupEntries }

SmartTtlChoices ==
    { EmptyDict,
      [enabled |-> FALSE, rank_c_ttl_hours |-> 1],
      [enabled |-> TRUE],
      [enabled |-> TRUE, rank_s_ttl_hours |-> 48, rank_a_ttl_hours |-> -1,
       rank_c_ttl_hours |-> 0] }

\* config["cache"]: each of the three keys may be absent
CacheConfigOf(en, ttl, sm) ==
    LET c1 == IF en = <<>> THEN EmptyDict ELSE Put(EmptyDict, "enabled", en[1])
        c2 == IF ttl = <<>> THEN c1 ELSE Put(c1, "ttl_hours", ttl[1])
    IN  IF sm = <<>> THEN c2 ELSE Put(c2, "smart_ttl", sm[1])

CacheConfigs ==
    { CacheConfigOf(en, ttl, sm) :
        en \in { <<>>, <<TRUE>>, <<FALSE>> },
        ttl \in { <<>>, <<0>>, <<48>> },
        sm \in { <<>> } \cup { <<s>> : s \in SmartTtlChoices } }

Clock == { 0, 23, 24, 25, 47, 48, 49, 71, 72, 167, 168, 169, 191, 192 }

LookupInit ==
    /\ MineIdle
    /\ RankIdle
    /\ ComboIdle
    /\ RunIdle
    /\ cache_data \in LookupStores
    /\ cache_config \in CacheConfigs
    /\ now \in Clock
    /\ lkey \in { KeyA, KeyB }
    /\ cpc = "lookup"
    /\ cret = None
    /\ validRet = <<>>
    /\ StoreIdle

\* lines 117-144, the call returns
Lookup ==
    /\ cpc = "lookup"
    /\ ~get_cached_result_raises(lkey, cache_data, cache_config)
    /\ cret' = get_cached_result(lkey, cache_data, cache_config, now)
    /\ validRet' =
          IF ValidityChecked(lkey, cache_data, cache_config)
          THEN << is_cache_valid(cache_data[lkey],
                                 Get(cache_config, "ttl_hours", DefaultTtlHours),
                                 Get(cache_config, "smart_ttl", None), now) >>
          ELSE <<>>
    /\ cpc' = "returned"
    /\ UNCHANGED <<comboVars, runVars, mineVars, rankVars, storeVars, cache_data, cache_config, now, lkey>>

\* lines 117-142 and 90-93: fromisoformat's TypeError leaves get_cached_result
LookupRaises ==
    /\ cpc = "lookup"
    /\ get_cached_result_raises(lkey, cache_data, cache_config)
    /\ cpc' = "raised"
    /\ UNCHANGED <<comboVars, runVars, mineVars, rankVars, storeVars, cache_data, cache_config, now, lkey, cret, validRet>>

LookupNext == Lookup \/ LookupRaises

LookupSpec == LookupInit /\ [][LookupNext]_vars

\* ---------------------------- cache_manager: load, update, checkpoint, save
\* The cache of one profile as its callers use it: load_cache, update_cache,
\* checkpoint_save and save_cache in any order, on a file that may be absent,
\* damaged or written by an earlier run.
StoredResults(keyword) ==
    { [keyword |-> keyword, allintitle_count |-> 3, rank |-> "C",
       recent_results |-> EmptyDict],
      [keyword |-> keyword, allintitle_count |-> 1, rank |-> "SS",
       recent_results |->
           Put(Put(EmptyDict, Label(SniperDays), [count |-> 2, items |-> <<[domain |-> DomX]>>]),
               Label(FallbackBDays), ZeroWindow)] }

\* an entry an earlier run stored
OldEntry(keyword, rnk) ==
    [keyword |-> keyword, allintitle_count |-> -1, rank |-> rnk,
     recent_results |-> EmptyDict, timestamp |-> IsoString(0)]

InitialFiles ==
    { FileMissing, FileUnreadable, FileUndecodable, FileInvalid, FileArray,
      FileObject(<<>>),
      FileObject(<< <<KeyA, EncodeEntry(OldEntry(KeyA, "?"))>> >>),
      FileObject(<< <<KeyA, EncodeEntry(OldEntry(KeyA, "?"))>>,
                    <<KeyB, EncodeEntry(OldEntry(KeyB, "B"))>> >>),
      FileObject(<< <<KeyB, EncodeEntry(OldEntry(KeyB, "B"))>>,
                    <<KeyA, EncodeEntry(OldEntry(KeyA, "?"))>> >>),
      FileObject(<< <<KeyA, EncodeEntry(OldEntry(KeyA, "?"))>>,
                    <<KeyA, EncodeEntry(OldEntry(KeyA, "B"))>> >>) }

CountChoices == { -3, 0, 1, 2, 3, 4, 6 }
IntervalChoices == { -1, 0, 1, 3 }

CacheInit ==
    /\ MineIdle
    /\ RankIdle
    /\ ComboIdle
    /\ RunIdle
    /\ cache_data = EmptyDict
    /\ cache_config = EmptyDict
    /\ now \in { 0, 24 }
    /\ lkey = <<>>
    /\ cpc = "start"
    /\ cret = None
    /\ validRet = <<>>
    /\ disk \in InitialFiles
    /\ io = ""
    /\ processed_count = 0
    /\ interval = 0
    /\ cp_result = FALSE
    /\ savedStore = <<>>

\* an exception left the last call
CacheRaised == cpc \in { "load_raised", "update_raised", "checkpoint_raised", "save_raised" }

CacheRunning == cpc # "idle" /\ ~CacheRaised

\* what the calls other than checkpoint_save and save_cache leave alone
NoCheckpoint == processed_count' = 0 /\ interval' = 0 /\ cp_result' = FALSE /\ io' = ""

\* load_cache lines 26-44, the call returns
LoadCache ==
    /\ CacheRunning
    /\ ~load_cache_raises(disk)
    /\ cache_data' = load_cache(disk)
    /\ cpc' = "loaded"
    /\ NoCheckpoint
    /\ UNCHANGED <<comboVars, runVars, mineVars, rankVars, cache_config, now, lkey, cret, validRet, disk, savedStore>>

\* load_cache lines 35-37: an exception the except clause does not name
LoadCacheRaises ==
    /\ CacheRunning
    /\ load_cache_raises(disk)
    /\ cpc' = "load_raised"
    /\ NoCheckpoint
    /\ UNCHANGED <<comboVars, runVars, mineVars, rankVars, cache_data, cache_config, now, lkey, cret, validRet,
                   disk, savedStore>>

\* update_cache lines 147-157
UpdateCache ==
    /\ CacheRunning
    /\ cache_data # DecodedList
    /\ \E keyword \in { KeyA, KeyB } : \E result_data \in StoredResults(keyword) :
          cache_data' = update_cache(keyword, result_data, cache_data, now)
    /\ cpc' = "updated"
    /\ NoCheckpoint
    /\ UNCHANGED <<comboVars, runVars, mineVars, rankVars, cache_config, now, lkey, cret, validRet, disk, savedStore>>

\* update_cache line 157 on a store that is a list: TypeError
UpdateCacheRaises ==
    /\ CacheRunning
    /\ cache_data = DecodedList
    /\ cpc' = "update_raised"
    /\ NoCheckpoint
    /\ UNCHANGED <<comboVars, runVars, mineVars, rankVars, cache_data, cache_config, now, lkey, cret, validRet,
                   disk, savedStore>>

\* the effect of one save_cache call whose I/O ends as `outcome`
Save(outcome, order) ==
    /\ io' = outcome
    /\ disk' = IF save_cache_raises(outcome) THEN disk
               ELSE save_cache(disk, cache_data, order, outcome)
    /\ savedStore' = CASE outcome = "ok" -> <<cache_data>>
                       [] outcome = "write" -> <<>>
                       [] OTHER -> savedStore

\* checkpoint_save lines 178-182
CheckpointSave ==
    /\ CacheRunning
    /\ \E pcount \in CountChoices, ival \in IntervalChoices :
          /\ processed_count' = pcount
          /\ interval' = ival
          /\ IF CheckpointDue(pcount, ival)
             THEN \E outcome \in IoOutcomes, order \in KeyOrders(cache_data) :
                     /\ Save(outcome, order)
                     /\ cp_result' = ~save_cache_raises(outcome)
                     /\ cpc' = IF save_cache_raises(outcome) THEN "checkpoint_raised"
                                                             ELSE "checkpointed"
             ELSE /\ cp_result' = FALSE
                  /\ cpc' = "checkpointed"
                  /\ io' = ""
                  /\ UNCHANGED <<disk, savedStore>>
    /\ UNCHANGED <<comboVars, runVars, mineVars, rankVars, cache_data, cache_config, now, lkey, cret, validRet>>

\* save_cache lines 47-61
SaveCache ==
    /\ CacheRunning
    /\ \E outcome \in IoOutcomes, order \in KeyOrders(cache_data) :
          /\ Save(outcome, order)
          /\ cpc' = IF save_cache_raises(outcome) THEN "save_raised" ELSE "saved"
    /\ processed_count' = 0 /\ interval' = 0 /\ cp_result' = FALSE
    /\ UNCHANGED <<comboVars, runVars, mineVars, rankVars, cache_data, cache_config, now, lkey, cret, validRet>>

CacheNext ==
    LoadCache \/ LoadCacheRaises \/ UpdateCache \/ UpdateCacheRaises \/ CheckpointSave
        \/ SaveCache

CacheSpec == CacheInit /\ [][CacheNext]_vars

\* ----------------------------------- suggest_fetcher.brute_force_combinations
\* brute_force_combinations as a function of the arguments
\* fetch_suggestions_for_pattern passes: empty word groups are dropped, and the
\* call is not made with nothing to combine.
ComboWords == { <<"a">>, <<"b">> }
TrendWords == { <<"t">>, <<"u">> }

WordGroups == SeqsUpTo(ComboWords, MaxWords) \ { <<>> }

ComboInit ==
    /\ MineIdle
    /\ RankIdle
    /\ CacheIdle
    /\ RunIdle
    /\ word_groups \in SeqsUpTo(WordGroups, MaxGroups)
    /\ use_trend \in BOOLEAN
    /\ trend_words \in SeqsUpTo(TrendWords, MaxWords)
    /\ ~(word_groups = <<>> /\ ~(use_trend /\ trend_words # <<>>))
    /\ combinations = <<>>
    /\ bpc = "call"

\* lines 182-212
Combine ==
    /\ bpc = "call"
    /\ combinations' = brute_force_combinations(word_groups, use_trend, trend_words)
    /\ bpc' = "done"
    /\ UNCHANGED <<mineVars, rankVars, cacheVars, runVars, word_groups, use_trend, trend_words>>

ComboNext == Combine

ComboSpec == ComboInit /\ [][ComboNext]_vars

\* ------------------------------------ gradio_app.run_analysis: ranking phase
\* run_analysis from the cache switch (lines 87-90) and load_cache (line 187)
\* to the final save (line 239): the candidate loop with lookup, classify,
\* store and checkpoint, on a cache file an earlier run may have written.
\* An exception anywhere is caught by the handler at lines 277-280, which
\* returns an error text and saves nothing.
MaxCandidates == 3   \* longest candidate list

KeyAB == <<"a", "b">>

Candidates ==
    { s \in SeqsUpTo({ KeyA, KeyB, KeyAB }, MaxCandidates) :
        s # <<>> /\ \A m, n \in DOMAIN s : m # n => s[m] # s[n] }

RunIntervals == { -1, 0, 1, 2 }

RunConfigs ==
    { CacheConfigOf(<<>>, <<>>, <<>>), CacheConfigOf(<<TRUE>>, <<48>>, <<>>),
      CacheConfigOf(<<FALSE>>, <<>>, <<>>) }

RunFiles ==
    { FileMissing, FileUndecodable, FileArray,
      FileObject(<< <<KeyA, EncodeEntry(OldEntry(KeyA, "C"))>> >>),
      FileObject(<< <<KeyA, EncodeEntry(OldEntry(KeyA, "C"))>>,
                    <<KeyB, EncodeEntry(Put(OldEntry(KeyB, "C"), "timestamp", Number(5)))>> >>) }

\* lines 212-217: the entry made without an API key
Placeholder(keyword) ==
    [keyword |-> keyword, allintitle_count |-> -1, rank |-> "?", recent_results |-> EmptyDict]

\* entries analyze_keyword returns under the default thresholds: the title
\* short-circuit, and the full pipeline for a title count of 0 whose B window
\* is empty
AnalyzeResults(keyword) ==
    LET ranking == [rank_s_days |-> FallbackSDays, rank_a_days |-> FallbackADays,
                    rank_b_days |-> FallbackBDays]
        rr == Put(Put(Put(EmptyDict, Label(FallbackBDays), ZeroWindow),
                      Label(FallbackADays), ZeroWindow),
                  Label(FallbackSDays), ZeroWindow)
    IN  { [keyword |-> keyword, allintitle_count |-> 10, rank |-> "C",
           recent_results |-> EmptyDict],
          [keyword |-> keyword, allintitle_count |-> 0,
           rank |-> determine_rank(0, rr, <<>>, ranking,
                                   [enabled |-> FALSE, max_competitors |-> 0]),
           recent_results |-> rr] }

RunInit ==
    /\ MineIdle
    /\ RankIdle
    /\ ComboIdle
    /\ unique_suggestions \in Candidates
    /\ has_api_key \in BOOLEAN
    /\ checkpoint_interval \in RunIntervals
    /\ run_i = 0
    /\ result = None
    /\ results = <<>>
    /\ cache_hits = 0
    /\ api_calls = 0
    /\ upc = "config"
    /\ runLog = <<>>
    /\ cache_data = EmptyDict
    /\ cache_config \in RunConfigs
    /\ now \in { 0, 24 }
    /\ lkey = <<>>
    /\ cpc = "idle"
    /\ cret = None
    /\ validRet = <<>>
    /\ disk \in RunFiles
    /\ io = ""
    /\ processed_count = 0
    /\ interval = 0
    /\ cp_result = FALSE
    /\ savedStore = <<>>

\* the candidate of the current iteration
Candidate == unique_suggestions[run_i + 1]

InLoop == upc = "lookup" /\ run_i < Len(unique_suggestions)

RunEvent(event, outcome) == runLog' = Append(runLog, <<event, run_i + 1, outcome>>)

\* what the run leaves alone in the other subsystems and in its own inputs
RunFrame ==
    UNCHANGED <<mineVars, rankVars, comboVars, unique_suggestions, has_api_key,
                checkpoint_interval, now, cpc, validRet>>

\* lines 87-90: force_no_cache switches the cache off in the configuration
RunConfigure ==
    /\ upc = "config"
    /\ \E force_no_cache \in BOOLEAN :
          cache_config' = IF force_no_cache THEN Put(cache_config, "enabled", FALSE)
                                            ELSE cache_config
    /\ upc' = "load"
    /\ RunFrame
    /\ UNCHANGED <<run_i, result, results, cache_hits, api_calls, runLog, cache_data, lkey,
                   cret, storeVars>>

\* lines 187-196: load_cache returns
RunLoad ==
    /\ upc = "load"
    /\ ~load_cache_raises(disk)
    /\ cache_data' = load_cache(disk)
    /\ upc' = "lookup"
    /\ RunFrame
    /\ UNCHANGED <<run_i, result, results, cache_hits, api_calls, runLog, cache_config, lkey,
                   cret, storeVars>>

\* line 187: load_cache raises
RunLoadRaises ==
    /\ upc = "load"
    /\ load_cache_raises(disk)
    /\ upc' = "failed"
    /\ RunFrame
    /\ UNCHANGED <<run_i, result, results, cache_hits, api_calls, runLog, cache_data,
                   cache_config, lkey, cret, storeVars>>

RunLookupHitNoContinue ==
    /\ InLoop
    /\ ~get_cached_result_raises(Candidate, cache_data, cache_config)
    /\ get_cached_result(Candidate, cache_data, cache_config, now) # None
    /\ lkey' = Candidate
    /\ cret' = get_cached_result(Candidate, cache_data, cache_config, now)
    /\ results' = Append(results, get_cached_result(Candidate, cache_data, cache_config, now))
    /\ cache_hits' = cache_hits + 1
    /\ upc' = "classify"
    /\ RunEvent("lookup", "hit")
    /\ RunFrame
    /\ UNCHANGED <<run_i, result, api_calls, cache_data, cache_config, storeVars>>

\* lines 198-207: the lookup hits; `continue` ends the iteration
RunLookupHit ==
    /\ InLoop
    /\ ~get_cached_result_raises(Candidate, cache_data, cache_config)
    /\ get_cached_result(Candidate, cache_data, cache_config, now) # None
    /\ lkey' = Candidate
    /\ cret' = get_cached_result(Candidate, cache_data, cache_config, now)
    /\ results' = Append(results, get_cached_result(Candidate, cache_data, cache_config, now))
    /\ cache_hits' = cache_hits + 1
    /\ run_i' = run_i + 1
    /\ RunEvent("lookup", "hit")
    /\ RunFrame
    /\ UNCHANGED <<result, api_calls, upc, cache_data, cache_config, storeVars>>

\* lines 198-204: the lookup misses
RunLookupMiss ==
    /\ InLoop
    /\ ~get_cached_result_raises(Candidate, cache_data, cache_config)
    /\ get_cached_result(Candidate, cache_data, cache_config, now) = None
    /\ lkey' = Candidate
    /\ cret' = None
    /\ upc' = "classify"
    /\ RunEvent("lookup", "miss")
    /\ RunFrame
    /\ UNCHANGED <<run_i, result, results, cache_hits, api_calls, cache_data, cache_config,
                   storeVars>>

\* line 203: get_cached_result raises
RunLookupRaises ==
    /\ InLoop
    /\ get_cached_result_raises(Candidate, cache_data, cache_config)
    /\ lkey' = Candidate
    /\ upc' = "failed"
    /\ RunEvent("lookup", "raised")
    /\ RunFrame
    /\ UNCHANGED <<run_i, result, results, cache_hits, api_calls, cache_data, cache_config,
                   cret, storeVars>>

\* lines 210-217: no API key, the entry is made without a classification
RunPlaceholder ==
    /\ upc = "classify"
    /\ ~has_api_key
    /\ result' = Placeholder(Candidate)
    /\ upc' = "update"
    /\ RunEvent("placeholder", "returned")
    /\ RunFrame
    /\ UNCHANGED <<run_i, results, cache_hits, api_calls, cache_data, cache_config, lkey,
                   cret, storeVars>>

\* lines 218-226: analyze_keyword returns
RunAnalyze ==
    /\ upc = "classify"
    /\ has_api_key
    /\ result' \in AnalyzeResults(Candidate)
    /\ api_calls' = api_calls + 1
    /\ upc' = "update"
    /\ RunEvent("classify", "returned")
    /\ RunFrame
    /\ UNCHANGED <<run_i, results, cache_hits, cache_data, cache_config, lkey, cret, storeVars>>

\* line 219: analyze_keyword raises on a malformed provider payload
RunAnalyzeRaises ==
    /\ upc = "classify"
    /\ has_api_key
    /\ \E data \in MalformedSearchData :
          get_allintitle_count_raises(data) \/ get_recent_results_raises(data)
    /\ upc' = "failed"
    /\ RunEvent("classify", "raised")
    /\ RunFrame
    /\ UNCHANGED <<run_i, result, results, cache_hits, api_calls, cache_data, cache_config,
                   lkey, cret, storeVars>>

\* lines 228-231: append the result, stamp it and upsert it
RunUpdate ==
    /\ upc = "update"
    /\ cache_data # DecodedList
    /\ results' = Append(results, result)
    /\ cache_data' = update_cache(Candidate, result, cache_data, now)
    /\ upc' = "checkpoint"
    /\ RunEvent("store", "returned")
    /\ RunFrame
    /\ UNCHANGED <<run_i, result, cache_hits, api_calls, cache_config, lkey, cret, storeVars>>

\* lines 228-231: update_cache raises on a store that is a list
RunUpdateRaises ==
    /\ upc = "update"
    /\ cache_data = DecodedList
    /\ results' = Append(results, result)
    /\ upc' = "failed"
    /\ RunEvent("store", "raised")
    /\ RunFrame
    /\ UNCHANGED <<run_i, result, cache_hits, api_calls, cache_data, cache_config, lkey,
                   cret, storeVars>>

\* lines 234-236: checkpoint_save with processed_count = i + 1
RunCheckpoint ==
    /\ upc = "checkpoint"
    /\ processed_count' = run_i + 1
    /\ interval' = checkpoint_interval
    /\ IF CheckpointDue(run_i + 1, checkpoint_interval)
       THEN \E outcome \in IoOutcomes, order \in KeyOrders(cache_data) :
               /\ Save(outcome, order)
               /\ RunEvent("checkpoint", outcome)
               /\ cp_result' = ~save_cache_raises(outcome)
               /\ upc' = IF save_cache_raises(outcome) THEN "failed" ELSE "lookup"
               /\ run_i' = IF save_cache_raises(outcome) THEN run_i ELSE run_i + 1
       ELSE /\ cp_result' = FALSE
            /\ upc' = "lookup"
            /\ run_i' = run_i + 1
            /\ io' = ""
            /\ UNCHANGED <<disk, savedStore, runLog>>
    /\ RunFrame
    /\ UNCHANGED <<result, results, cache_hits, api_calls, cache_data, cache_config, lkey, cret>>

\* lines 238-240: the loop is over, the final save_cache
RunFlush ==
    /\ upc = "lookup"
    /\ run_i = Len(unique_suggestions)
    /\ \E outcome \in IoOutcomes, order \in KeyOrders(cache_data) :
          /\ Save(outcome, order)
          /\ runLog' = Append(runLog, <<"flush", run_i, outcome>>)
          /\ upc' = IF save_cache_raises(outcome) THEN "failed" ELSE "done"
    /\ RunFrame
    /\ UNCHANGED <<run_i, result, results, cache_hits, api_calls, cache_data, cache_config,
                   lkey, cret, processed_count, interval, cp_result>>

RunNext ==
    RunConfigure \/ RunLoad \/ RunLoadRaises \/ RunLookupHit \/ RunLookupMiss
        \/ RunLookupRaises \/ RunPlaceholder \/ RunAnalyze \/ RunAnalyzeRaises \/ RunUpdate
        \/ RunUpdateRaises \/ RunCheckpoint \/ RunFlush

RunSpec == RunInit /\ [][RunNext]_vars

\* ------------------------------------------------- smart_recursive_search
Done == pc = "done"

FetchedKeywords == { fetchLog[i][1] : i \in 1..Len(fetchLog) }

\* a suggestion contains at least one filter keyword
Matches(s) == \E j \in 1..Len(filter_keywords) : IsSubstring(filter_keywords[j], s)

FirstIndex(s, x) == CHOOSE i \in 1..Len(s) : s[i] = x /\ \A j \in 1..(i - 1) : s[j] # x

\* C1: the returned list holds each keyword at most once, holds exactly the
\* keywords that were admitted to a result list, and lists them in the order
\* of their first admission during the traversal.
C1_DedupFirstDiscovery ==
    Done =>
      /\ \A i, j \in 1..Len(retval) : i # j => retval[i] # retval[j]
      /\ Range(retval) = Range(admitLog)
      /\ \A i, j \in 1..Len(retval) :
            i < j => FirstIndex(admitLog, retval[i]) < FirstIndex(admitLog, retval[j])

\* a finished traversal in which some keyword was admitted twice, from two
\* fetches, and the output has at least two keywords
C1_Witness ==
    /\ Done
    /\ Len(retval) >= 2
    /\ Len(fetchLog) >= 2
    /\ \E i, j \in 1..Len(admitLog) : i < j /\ admitLog[i] = admitLog[j]
    /\ \E s \in Keywords, d1, d2 \in 0..MaxDepth :
          d1 # d2 /\ <<d1, s>> \in sugLog /\ <<d2, s>> \in sugLog

\* C2: the provider is called at most once per distinct keyword, failed calls
\* included, and every keyword it was called for is in the seen set.
C2_FetchAtMostOnce ==
    /\ \A i, j \in 1..Len(fetchLog) : i # j => fetchLog[i][1] # fetchLog[j][1]
    /\ FetchedKeywords \subseteq seen

\* a finished traversal with a failed call, in which a keyword that was
\* fetched was offered again later (as a suggestion or a repeated root)
C2_Witness ==
    /\ Done
    /\ \E i \in 1..Len(fetchLog) : ~fetchLog[i][3]
    /\ \E i \in 1..Len(fetchLog) :
          \E d \in 0..MaxDepth : d >= fetchLog[i][2] /\ <<d, fetchLog[i][1]>> \in sugLog

\* C3: fetches happen only at depths 0..max_depth-1 (none when max_depth <= 0),
\* every keyword of the output was returned by such a fetch, and no activation
\* is entered with an empty frontier.
C3_DepthBound ==
    /\ \A i \in 1..Len(fetchLog) : fetchLog[i][2] >= 0 /\ fetchLog[i][2] < max_depth
    /\ max_depth <= 0 => (fetchLog = <<>> /\ (Done => retval = <<>>))
    /\ Done => \A k \in Range(retval) :
                  \E d \in 0..(max_depth - 1) : <<d, k>> \in sugLog
    /\ \A d \in 2..Len(stack) :
          stack[d].roots # <<>> /\ stack[d].roots = stack[d - 1].next_roots

\* a finished traversal that fetched at its last allowed depth and left a
\* filter-matching keyword of the frontier unfetched
C3_Witness ==
    /\ Done
    /\ max_depth >= 2
    /\ \E i \in 1..Len(fetchLog) : fetchLog[i][2] = max_depth - 1
    /\ \E k \in Range(retval) : Matches(k) /\ k \notin seen

\* C4: at depth 0 only filter-matching suggestions enter the result list and
\* the next frontier; a keyword of the output that matches no filter keyword
\* was returned by a fetch at depth >= 1.
C4_Depth0Filter ==
    /\ Len(stack) >= 1 =>
          \A x \in Range(stack[1].all_results) \cup Range(stack[1].next_roots) : Matches(x)
    /\ Done => \A k \in Range(retval) :
                  Matches(k) \/ \E d \in 1..MaxDepth : <<d, k>> \in sugLog

\* the depth-0 loop has admitted something while a depth-0 fetch returned a
\* suggestion that matches no filter keyword
C4_Witness ==
    /\ Len(stack) = 1
    /\ pc = "loop"
    /\ stack[1].all_results # <<>>
    /\ \E s \in Keywords : <<0, s>> \in sugLog /\ ~Matches(s)

\* C5: every suggestion returned by a fetch at depth >= 1 is in the final
\* output list.
C5_DeepSuggestionsInOutput ==
    Done => \A p \in sugLog : p[1] >= 1 => p[2] \in Range(retval)

\* ------------------------------------------------------------- the ranker
RankDone == rpc = "done"

QueryEntries(role) == { i \in 1..Len(queryLog) : queryLog[i][1] = role }

RoleResult(role) == queryLog[CHOOSE i \in QueryEntries(role) : TRUE][3]

WindowRoles == { "sniper", "B", "A", "S" }

RecordedA == recent_results[Label(ranking_config.rank_a_days)]
RecordedS == recent_results[Label(ranking_config.rank_s_days)]

DistinctWindows ==
    Cardinality({ SniperDays, ranking_config.rank_b_days, ranking_config.rank_a_days,
                  ranking_config.rank_s_days }) = 4

\* C6: the B window is queried once; with B count 0 neither A nor S is
\* queried and both are recorded as {0, []}; with B nonzero A is queried once,
\* and S is queried (once) only when the A count is nonzero too, and is
\* recorded as {0, []} otherwise.  No query site runs twice, and with distinct
\* thresholds no day range is queried twice.
C6_MonotonicShortCircuit ==
    /\ \A role \in WindowRoles \cup {"title"} : Cardinality(QueryEntries(role)) <= 1
    /\ DistinctWindows =>
          \A i, j \in 2..Len(queryLog) : i # j => queryLog[i][2] # queryLog[j][2]
    /\ (RankDone /\ QueryEntries("B") # {}) =>
          IF RoleResult("B").count = 0
          THEN /\ QueryEntries("A") = {} /\ QueryEntries("S") = {}
               /\ RecordedA = ZeroWindow /\ RecordedS = ZeroWindow
          ELSE /\ Cardinality(QueryEntries("A")) = 1
               /\ IF RoleResult("A").count = 0
                  THEN QueryEntries("S") = {} /\ RecordedS = ZeroWindow
                  ELSE Cardinality(QueryEntries("S")) = 1 /\ RecordedS = RoleResult("S")

\* a finished classification whose B query returned count 0 after a nonzero
\* title count and a sniper query
C6_Witness ==
    /\ RankDone
    /\ allintitle > 0
    /\ QueryEntries("sniper") # {}
    /\ QueryEntries("B") # {}
    /\ RoleResult("B").count = 0

\* the SS conditions, read off the arguments of determine_rank
SniperHolds ==
    /\ sniper_config.enabled
    /\ 1 <= allintitle /\ allintitle <= sniper_config.max_competitors
    /\ Label(SniperDays) \in DOMAIN recent_results
    /\ recent_results[Label(SniperDays)].count > 0
    /\ recent_results[Label(SniperDays)].items # <<>>
    /\ \A i \in 1..Len(recent_results[Label(SniperDays)].items) :
          \E j \in 1..Len(target_domains) :
              IsSubstring(target_domains[j], recent_results[Label(SniperDays)].items[i].domain)

WinCount(days) == recent_results[Label(days)].count

\* C7: determine_rank returns the first match of SS, S, A, B, C.
C7_RankPriority ==
    RankDone =>
      rank = IF SniperHolds THEN "SS"
             ELSE IF allintitle = 0 \/ WinCount(ranking_config.rank_s_days) = 0 THEN "S"
             ELSE IF WinCount(ranking_config.rank_a_days) = 0 THEN "A"
             ELSE IF WinCount(ranking_config.rank_b_days) = 0 THEN "B"
             ELSE "C"

\* title count 0 with every window nonzero was ranked S
C7_Witness ==
    /\ RankDone
    /\ allintitle = 0
    /\ \A k \in DOMAIN recent_results : recent_results[k].count > 0
    /\ rank = "S"

\* C8: title count 10 and a B-window query that returned count 0 (no SS, no
\* title short-circuit) give rank B, the B, A, S and sniper windows being four
\* different day ranges.
C8_TitleTenBZeroIsB ==
    (/\ RankDone
     /\ DistinctWindows
     /\ allintitle = 10
     /\ QueryEntries("B") # {}
     /\ RoleResult("B").count = 0
     /\ rank # "SS") => rank = "B"

\* C9: SS is returned exactly when the sniper conditions hold.
C9_SniperIff ==
    RankDone => (rank = "SS" <=> SniperHolds)

\* SS was returned for a 1-day window holding two allowlisted items
C9_Witness ==
    /\ RankDone
    /\ rank = "SS"
    /\ Len(recent_results[Label(SniperDays)].items) = 2

\* C10: a title count above a switched-on max_allintitle_results gives rank C,
\* an empty window map and no windowed query; with the threshold 0 or the
\* title count -1 the windows are always queried.
C10_TitleShortCircuit ==
    /\ (max_allintitle # 0 /\ allintitle > max_allintitle /\ rpc # "title") =>
          /\ Len(queryLog) = 1
          /\ recent_results = EmptyDict
          /\ RankDone => rank = "C"
    /\ (RankDone /\ (max_allintitle = 0 \/ allintitle = -1)) =>
          /\ QueryEntries("B") # {}
          /\ recent_results # EmptyDict

\* sniper mode on, title count 10 above the threshold 5: rank C after the
\* title query alone
C10_Witness ==
    /\ RankDone
    /\ sniper_config.enabled
    /\ max_allintitle = 5
    /\ allintitle = 10
    /\ rank = "C"
    /\ Len(queryLog) = 1

\* the provider call of the query of this role failed (_search returned {})
Failed(role) == \E i \in QueryEntries(role) : queryLog[i][4]

\* C11: a failed provider call is recorded as -1 in every query of the
\* cascade (title and windows); a failed B query is followed by the A query
\* and a failed A query by the S query; and no rank condition `count == 0`
\* is met by a failed query: with nothing but failed queries the rank is C.
C11_FailureIsSentinel ==
    /\ \A i \in 1..Len(queryLog) :
          queryLog[i][4] =>
              IF queryLog[i][1] = "title" THEN queryLog[i][3] = -1
                                          ELSE queryLog[i][3].count = -1
    /\ (RankDone /\ Failed("B")) => QueryEntries("A") # {}
    /\ (RankDone /\ Failed("A")) => QueryEntries("S") # {}
    /\ (RankDone /\ \A i \in 1..Len(queryLog) : queryLog[i][4]) => rank = "C"

\* ------------------------------------------------------ the cache lookup
LookedUp == cpc \in { "returned", "raised" }

Present == lkey \in DOMAIN cache_data

Entry == cache_data[lkey]

CachingEnabled == Get(cache_config, "enabled", TRUE)

\* the timestamp field is there and is an ISO date-time string
Parseable(e) ==
    /\ "timestamp" \in DOMAIN e
    /\ e["timestamp"].type = "str"
    /\ e["timestamp"].form = "iso"

SmartEnabled ==
    /\ "smart_ttl" \in DOMAIN cache_config
    /\ "enabled" \in DOMAIN cache_config["smart_ttl"]
    /\ cache_config["smart_ttl"]["enabled"]

BaseTtl == IF "ttl_hours" \in DOMAIN cache_config THEN cache_config["ttl_hours"]
                                                  ELSE DefaultTtlHours

\* the per-rank table with its defaults
TableTtl(r) ==
    LET sm == cache_config["smart_ttl"]
    IN  CASE r = "SS" -> Get(sm, "rank_ss_ttl_hours", RankSsTtlHours)
          [] r = "S" -> Get(sm, "rank_s_ttl_hours", RankSTtlHours)
          [] r = "A" -> Get(sm, "rank_a_ttl_hours", RankATtlHours)
          [] r = "B" -> Get(sm, "rank_b_ttl_hours", RankBTtlHours)
          [] r = "C" -> Get(sm, "rank_c_ttl_hours", RankCTtlHours)

\* the rank of the entry, if it is one of the five ranks (in any letter case)
TableRank(e) ==
    IF "rank" \in DOMAIN e /\ Upper(e["rank"]) \in { "SS", "S", "A", "B", "C" }
    THEN Upper(e["rank"]) ELSE ""

EffectiveTtl(e) ==
    IF SmartEnabled /\ TableRank(e) # "" THEN TableTtl(TableRank(e)) ELSE BaseTtl

StaleByTtl(e) == EffectiveTtl(e) = 0 \/ now >= e["timestamp"].val + EffectiveTtl(e)

Stale(e) == ~Parseable(e) \/ StaleByTtl(e)

\* C12: every lookup returns, and it returns the stored entry if the keyword
\* is in the store, caching is enabled and the entry is not stale, and None in
\* every other case.
C12_LookupIff ==
    LookedUp =>
      /\ cpc = "returned"
      /\ cret = IF Present /\ CachingEnabled /\ ~Stale(Entry) THEN Entry ELSE None

\* C13: for an entry with a parseable timestamp the staleness check answers
\* "fresh" iff the effective TTL is not 0 and now < timestamp + TTL, the TTL
\* being the table value of the entry's rank when smart TTL is on and the base
\* TTL otherwise; rank S with table value 0 is stale at the hour it was
\* written, rank C with 168 is fresh 167 hours and stale 169 hours later.
C13_StaleIff ==
    (validRet # <<>> /\ Parseable(Entry)) =>
      /\ validRet[1] <=> ~StaleByTtl(Entry)
      /\ (SmartEnabled /\ TableRank(Entry) = "S" /\ TableTtl("S") = 0
            /\ now = Entry["timestamp"].val) => ~validRet[1]
      /\ (SmartEnabled /\ TableRank(Entry) = "C" /\ TableTtl("C") = 168) =>
            /\ now = Entry["timestamp"].val + 167 => validRet[1]
            /\ now = Entry["timestamp"].val + 169 => ~validRet[1]

\* a rank-C entry under the default table was found fresh 167 hours after it
\* was written, with a base TTL of 48 hours
C13_Witness ==
    /\ validRet = <<TRUE>>
    /\ Present
    /\ Parseable(Entry)
    /\ "rank" \in DOMAIN Entry
    /\ SmartEnabled
    /\ Entry["rank"] = "C"
    /\ BaseTtl = 48
    /\ TableTtl("C") = 168
    /\ now = Entry["timestamp"].val + 167
    /\ cret = Entry

\* C14: an entry whose timestamp is absent, empty, malformed or not a string
\* is reported stale, the lookup returns None, and nothing is raised.
C14_UnparseableIsMiss ==
    (LookedUp /\ Present /\ ~Parseable(Entry)) =>
      /\ cpc = "returned"
      /\ cret = None
      /\ CachingEnabled => validRet = <<FALSE>>

\* ------------------------------------------------------- the cache file
\* processed_count is a positive multiple of a positive interval
PositiveMultiple ==
    /\ interval > 0
    /\ processed_count > 0
    /\ \E m \in 1..processed_count : processed_count = m * interval

\* C15: a checkpoint_save call that completes returns True, and has called
\* save_cache with the whole store, exactly when interval > 0 and
\* processed_count is a positive multiple of it; a save whose I/O works leaves
\* the file holding the whole store; in every other case no save is made and
\* False is returned.
C15_CheckpointExactly ==
    cpc = "checkpointed" =>
      /\ cp_result <=> PositiveMultiple
      /\ io # "" <=> PositiveMultiple
      /\ (PositiveMultiple /\ io = "ok") =>
            /\ savedStore = <<cache_data>>
            /\ load_cache(disk) = cache_data
      /\ (interval <= 0 \/ processed_count <= 0) => (~cp_result /\ io = "")
      /\ (interval = 3 /\ processed_count \in {2, 4}) => (~cp_result /\ io = "")

\* the second checkpoint of interval 3 (count 6) wrote a two-keyword store
C15_Witness ==
    /\ cpc = "checkpointed"
    /\ interval = 3
    /\ processed_count = 6
    /\ cp_result
    /\ io = "ok"
    /\ cache_data # DecodedList
    /\ Cardinality(DOMAIN cache_data) = 2
    /\ load_cache(disk) = cache_data

C18_LoadNeverFails ==
    (cpc \in { "loaded", "load_raised" } /\ disk.kind # "object") =>
      /\ cpc = "loaded"
      /\ cache_data = EmptyDict

\* C19: a save_cache call whose I/O fails at any step (making the directory,
\* opening the file, writing it) raises nothing and leaves the in-memory store
\* as it was.
C19_SaveFailureNonFatal ==
    [][ (/\ io' \notin { "", "ok" }
         /\ cpc' \in { "saved", "save_raised", "checkpointed", "checkpoint_raised" })
        => (cpc' \in { "saved", "checkpointed" } /\ cache_data' = cache_data) ]_vars

\* ------------------------------------------------- combination generation
ComboDone == bpc = "done"

RECURSIVE SizeProduct(_)
SizeProduct(groups) ==
    IF groups = <<>> THEN 1 ELSE Len(Head(groups)) * SizeProduct(Tail(groups))

\* one choice of a word position per group
Choices(groups) ==
    { c \in [1..Len(groups) -> 1..MaxWords] : \A j \in 1..Len(groups) : c[j] <= Len(groups[j]) }

\* the place of a choice in the product, the first group varying slowest
RECURSIVE Place(_, _)
Place(groups, c) ==
    IF groups = <<>> THEN 1
    ELSE (c[1] - 1) * SizeProduct(Tail(groups)) + Place(Tail(groups), Tail(c))

\* the chosen words, each followed by one space but the last
RECURSIVE SpaceJoined(_, _)
SpaceJoined(groups, c) ==
    IF Len(groups) = 1 THEN groups[1][c[1]]
    ELSE SpaceJoined(SubSeq(groups, 1, Len(groups) - 1), SubSeq(c, 1, Len(c) - 1))
            \o <<SP>> \o groups[Len(groups)][c[Len(groups)]]

\* `combinations` is the product of `groups`: as many as the product of the
\* sizes, one per choice, at the place of the choice, nothing removed
IsProductOf(groups) ==
    /\ Len(combinations) = SizeProduct(groups)
    /\ \A c \in Choices(groups) : combinations[Place(groups, c)] = SpaceJoined(groups, c)

\* C17 as stated: the result is the product of the word groups, prefixed by
\* the trend-word group whenever trend is enabled (so many times the
\* trend-list size), the words of a combination joined by single spaces.
C17_ProductTrendEnabled ==
    ComboDone =>
      IsProductOf(IF use_trend THEN <<trend_words>> \o word_groups ELSE word_groups)

\* C17 amended: the trend-word group is prefixed when trend is enabled and the
\* trend list is not empty; with trend enabled and an empty trend list the
\* result is the product of the word groups alone.
C17_ProductTrendNonEmpty ==
    ComboDone =>
      IsProductOf(IF use_trend /\ trend_words # <<>> THEN <<trend_words>> \o word_groups
                                                     ELSE word_groups)

\* two trend words before two groups of two words: eight combinations, a
\* repeated word kept
C17_Witness ==
    /\ ComboDone
    /\ use_trend
    /\ Len(trend_words) = 2
    /\ word_groups = << <<<<"a">>, <<"b">>>>, <<<<"b">>, <<"b">>>> >>
    /\ Len(combinations) = 8
    /\ combinations[1] = <<"t", SP, "a", SP, "b">>
    /\ combinations[1] = combinations[2]

\* ------------------------------------------------- the provider boundary
\* C20: whatever the provider answers, fetch_suggestions, get_allintitle_count
\* and get_recent_results return a value: no exception reaches the depth
\* iteration or the rank cascade.
C20_NoProviderException == pc # "raised" /\ rpc # "raised"

\* ------------------------------------------------------------ run_analysis
RunDone == upc = "done"

RunFailed == upc = "failed"

RunEnded == RunDone \/ RunFailed

\* the events of the candidate with processed count n
EventsOf(event, n) == { j \in 1..Len(runLog) : runLog[j][1] = event /\ runLog[j][2] = n }

Happened(event, n, outcome) == \E j \in EventsOf(event, n) : runLog[j][3] = outcome

\* C21: with a checkpoint interval k > 0, the store is persisted by a
\* checkpoint at every processed count that is a positive multiple of k and at
\* no other processed count, whether the candidates hit or miss the cache:
\* for every candidate whose iteration is over, a checkpoint save was made at
\* its processed count exactly when that count is a multiple of k.
C21_CheckpointAtMultiples ==
    checkpoint_interval > 0 =>
        \A n \in 1..run_i :
            (n % checkpoint_interval = 0) <=> EventsOf("checkpoint", n) # {}

\* the candidates whose entry the run stored into the in-memory cache
StoredCounts == { n \in 1..Len(unique_suggestions) : Happened("store", n, "returned") }

\* the cache file holds the in-memory entry of `keyword`
Persisted(keyword) ==
    /\ disk.kind = "object"
    /\ keyword \in DOMAIN load_cache(disk)
    /\ load_cache(disk)[keyword] = cache_data[keyword]

\* C22: a run that reached the ranking phase ends with a flush: once the run
\* has terminated, normally or through a failure, the cache file holds every
\* entry the run stored into the in-memory cache.
C22_FlushAtEnd ==
    RunEnded => \A n \in StoredCounts : Persisted(unique_suggestions[n])

\* C23: only filter-matching suggestions enter the next frontier: every
\* keyword fetched at a depth >= 1 contains some filter keyword as a substring
\* and was returned as a suggestion by a fetch at the previous depth.
C23_FrontierFiltered ==
    \A j \in 1..Len(fetchLog) :
        fetchLog[j][2] >= 1 =>
            /\ Matches(fetchLog[j][1])
            /\ <<fetchLog[j][2] - 1, fetchLog[j][1]>> \in sugLog

\* a finished search that fetched below the roots, while a suggestion that
\* matches no filter keyword was returned and never fetched
C23_Witness ==
    /\ Done
    /\ \E j \in 1..Len(fetchLog) : fetchLog[j][2] >= 1
    /\ \E e \in sugLog : ~Matches(e[2]) /\ e[2] \notin FetchedKeywords

\* the position in the log of the one event `event` of candidate n
EventIndex(event, n) == CHOOSE j \in EventsOf(event, n) : TRUE

\* candidate n was looked up once, and `producer` ran for it exactly once,
\* followed by exactly one store, if the lookup missed, and not at all if it hit
LookupThenOnce(producer, n) ==
    /\ Cardinality(EventsOf("lookup", n)) = 1
    /\ IF Happened("lookup", n, "hit")
       THEN EventsOf(producer, n) = {} /\ EventsOf("store", n) = {}
       ELSE /\ Cardinality(EventsOf(producer, n)) = 1
            /\ Cardinality(EventsOf("store", n)) = 1
            /\ EventIndex("lookup", n) < EventIndex(producer, n)
            /\ EventIndex(producer, n) < EventIndex("store", n)

\* nothing is produced or stored for a candidate before its lookup missed
AfterMiss(event) ==
    \A j \in 1..Len(runLog) :
        runLog[j][1] = event =>
            \E l \in 1..(j - 1) : runLog[l] = <<"lookup", runLog[j][2], "miss">>

\* C24 as stated: every candidate is looked up first; analyze_keyword is
\* invoked exactly once for each candidate whose lookup misses and never for
\* one whose lookup hits, and each miss is followed by exactly one store
\* before the next candidate is processed.
C24_ClassifyOncePerMiss ==
    /\ \A n \in 1..run_i : LookupThenOnce("classify", n)
    /\ AfterMiss("classify")
    /\ AfterMiss("store")

\* C24 amended: with an API key the entry of a miss is produced by exactly one
\* analyze_keyword call; without one analyze_keyword is never called and the
\* entry of a miss is the placeholder (rank "?", count -1), made exactly once;
\* either way a hit produces and stores nothing, and a miss is followed by
\* exactly one store before the next candidate is processed.
C24_ProduceOncePerMiss ==
    /\ \A n \in 1..run_i :
          LookupThenOnce(IF has_api_key THEN "classify" ELSE "placeholder", n)
    /\ AfterMiss("classify")
    /\ AfterMiss("placeholder")
    /\ AfterMiss("store")
    /\ \A j \in 1..Len(runLog) :
          /\ runLog[j][1] = "classify" => has_api_key
          /\ runLog[j][1] = "placeholder" => ~has_api_key

\* a finished run with an API key in which one candidate hit and another
\* missed and was classified
C24_Witness ==
    /\ RunDone
    /\ has_api_key
    /\ \E n \in 1..run_i : Happened("lookup", n, "hit")
    /\ \E n \in 1..run_i : Happened("lookup", n, "miss") /\ Happened("classify", n, "returned")

CachingOff == upc # "config" /\ ~CachingEnabled

\* the last save_cache call wrote the file and the store has not changed since
SavedAndUnchanged == io = "ok" /\ upc \in { "lookup", "classify", "update", "done" }

====
